---- MODULE Spec2Model ----
(***************************************************************************)
(* DataFrameReader (snowflake/snowpark/dataframe_reader.py): the fluent    *)
(* reader builder.  Python strings are modelled as sequences of one-       *)
(* character strings, so that str.upper(), str.lower(), str() and quoting  *)
(* are computed character by character.  Python objects that are shared by *)
(* reference (the option dict) live in a heap indexed by object identity.  *)
(***************************************************************************)
EXTENDS Integers, Sequences, FiniteSets, TLC

\* ------------------------------------------------------------------ bounds
MaxLen == 2      \* longest dict passed to options()
MaxHandles == 2  \* DataFrames built by read_file that are kept under observation

\* ------------------------------------------------------- Python primitives
LowerAlpha == <<"a","b","c","d","e","f","g","h","i","j","k","l","m",
                "n","o","p","q","r","s","t","u","v","w","x","y","z">>
UpperAlpha == <<"A","B","C","D","E","F","G","H","I","J","K","L","M",
                "N","O","P","Q","R","S","T","U","V","W","X","Y","Z">>
Digits == <<"0","1","2","3","4","5","6","7","8","9">>

IndexIn(alpha, c) == CHOOSE i \in 1..Len(alpha) : alpha[i] = c
IsIn(alpha, c) == \E i \in 1..Len(alpha) : alpha[i] = c

\* faulty variant: the key is stored as given, not upper-cased
upper_omitted(s) == s

\* str.upper(): every cased character replaced by its upper-case form
upper(s) ==
  [i \in 1..Len(s) |->
     IF IsIn(LowerAlpha, s[i]) THEN UpperAlpha[IndexIn(LowerAlpha, s[i])] ELSE s[i]]

\* str.lower()
lower(s) ==
  [i \in 1..Len(s) |->
     IF IsIn(UpperAlpha, s[i]) THEN LowerAlpha[IndexIn(UpperAlpha, s[i])] ELSE s[i]]

\* Python values handed to option(): a bool, an int or a str, tagged by type(v)
PyBool(b) == [t |-> "bool", b |-> b, i |-> 0, s |-> <<>>]
PyInt(i) == [t |-> "int", b |-> FALSE, i |-> i, s |-> <<>>]
PyStr(s) == [t |-> "str", b |-> FALSE, i |-> 0, s |-> s]

RECURSIVE nat_str(_)
nat_str(n) ==
  IF n < 10 THEN <<Digits[n + 1]>>
  ELSE nat_str(n \div 10) \o <<Digits[(n % 10) + 1]>>

\* str(v) for the three value types
str(v) ==
  CASE v.t = "bool" -> IF v.b THEN <<"T","r","u","e">> ELSE <<"F","a","l","s","e">>
    [] v.t = "int" -> IF v.i < 0 THEN <<"-">> \o nat_str(-v.i) ELSE nat_str(v.i)
    [] OTHER -> v.s

\* AnalyzerPackage.single_quote: the shared SQL string-literal quoting routine
RECURSIVE escape_quotes(_)
escape_quotes(s) ==
  IF s = <<>> THEN <<>>
  ELSE (IF Head(s) = "'" THEN <<"'", "'">> ELSE <<Head(s)>>) \o escape_quotes(Tail(s))

single_quote(s) == <<"'">> \o escape_quotes(s) \o <<"'">>

\* dict[k] = v
setitem(d, k, v) == [x \in (DOMAIN d) \cup {k} |-> IF x = k THEN v ELSE d[x]]

EmptyDict == [x \in {} |-> <<>>]

\* ------------------------------------------------------------ schema types
None == [isNone |-> TRUE, fields |-> <<>>]
StructType(fields) == [isNone |-> FALSE, fields |-> fields]
StructField(name, type) == [name |-> name, type |-> type]
Attribute(name, type) == [name |-> name, type |-> type]

\* StructType.to_attributes(): one Attribute per StructField, in order
to_attributes(st) ==
  [i \in 1..Len(st.fields) |-> Attribute(st.fields[i].name, st.fields[i].type)]

\* truth value of self.__user_schema in `if self.__user_schema`
truthy(sch) == ~sch.isNone

\* ------------------------------------------------------------------ inputs
Path == "@stage/file"
Namespace == "db.sch"
TableName == "t"

Schemas ==
  { StructType(<<StructField("a", "IntegerType"), StructField("b", "StringType")>>),
    StructType(<<StructField("b", "StringType")>>) }

\* keys and values of the option-handling specification
Keys == { <<"a","b">>, <<"A","b">>, <<"c">> }
Values ==
  { PyBool(TRUE), PyBool(FALSE), PyInt(10), PyInt(-3),
    PyStr(<<"T","r","U","E">>), PyStr(<<"f","a","l","s","e">>),
    PyStr(<<".","*">>), PyStr(<<"a","'">>) }
ConfigValues == { PyInt(10), PyStr(<<".","*">>) }

\* keys and values of the whole-reader specification
KeysR == { <<"k">> }
ValuesR == { PyBool(TRUE), PyStr(<<"x">>) }

Pair(k, v) == [key |-> k, value |-> v]

\* a Python dict as the sequence of its items in iteration order: keys distinct
Configs(K, V) ==
  { c \in UNION { [1..n -> { Pair(k, v) : k \in K, v \in V }] : n \in 0..MaxLen } :
      \A i, j \in 1..Len(c) : i # j => c[i].key # c[j].key }

ConfigsOpt == Configs(Keys, ConfigValues)
ConfigsR == Configs(KeysR, ValuesR)

\* ------------------------------------------------------------------- state
VARIABLES
  user_schema,      \* self.__user_schema
  cur_options,      \* self.__cur_options: the identity of the dict object
  heap,             \* dict objects by identity
  dataframes,       \* the DataFrames built from read_file plans, oldest first
  snapshots,        \* history: each DataFrame's options and schema when it was built
  remote,           \* the session calls made by the most recent method call
  call,             \* history: the most recent method call and its arguments
  ret,              \* what the most recent method call returned or raised
  last_given,       \* history: per case-folded key, the last value given for it
  last_schema_arg   \* history: the argument of the most recent schema() call

vars == <<user_schema, cur_options, heap, dataframes, snapshots, remote, call, ret,
          last_given, last_schema_arg>>

Call(op, key, value, configs, sch) ==
  [op |-> op, key |-> key, value |-> value, configs |-> configs, schema |-> sch]
NoValue == PyStr(<<>>)

Self == [kind |-> "self", exc |-> "", df |-> 0]
Raise(exc) == [kind |-> "raise", exc |-> exc, df |-> 0]
DataFrame(n) == [kind |-> "DataFrame", exc |-> "", df |-> n]

\* __init__
Init ==
  /\ user_schema = None
  /\ cur_options = 1
  /\ heap = [o \in {1} |-> EmptyDict]
  /\ dataframes = <<>>
  /\ snapshots = <<>>
  /\ remote = <<>>
  /\ call = Call("__init__", <<>>, NoValue, <<>>, None)
  /\ ret = Self
  /\ last_given = EmptyDict
  /\ last_schema_arg = None

\* --------------------------------------------------------------- operations
\* faulty variant: booleans serialized as the lower-case literals
parse_value_lowered(v) ==
  IF v.t = "bool" THEN lower(str(v))
  ELSE IF v.t = "int" THEN str(v)
  ELSE IF v.t = "str" /\ lower(v.s) \in { <<"t","r","u","e">>, <<"f","a","l","s","e">> }
       THEN v.s
       ELSE single_quote(str(v))

\* faulty variant: the boolean-literal test compares the string as given, without lower()
parse_value_cased(v) ==
  IF v.t \in {"bool", "int"} THEN str(v)
  ELSE IF v.t = "str" /\ v.s \in { <<"t","r","u","e">>, <<"f","a","l","s","e">> }
       THEN v.s
       ELSE single_quote(str(v))

\* __parse_value
parse_value(v) ==
  IF v.t \in {"bool", "int"} THEN str(v)
  ELSE IF v.t = "str" /\ lower(v.s) \in { <<"t","r","u","e">>, <<"f","a","l","s","e">> }
       THEN v.s
       ELSE single_quote(str(v))

\* the assignment of option(): self.__cur_options[key.upper()] = self.__parse_value(value)
option_store(d, key, value) == setitem(d, upper(key), parse_value(value))

\* faulty variant: the items are applied last to first
RECURSIVE options_loop_reversed(_, _)
options_loop_reversed(d, configs) ==
  IF configs = <<>> THEN d
  ELSE options_loop_reversed(
         option_store(d, configs[Len(configs)].key, configs[Len(configs)].value),
         SubSeq(configs, 1, Len(configs) - 1))

\* the loop of options(): for k, v in configs.items(): self.option(k, v)
RECURSIVE options_loop(_, _)
options_loop(d, configs) ==
  IF configs = <<>> THEN d
  ELSE options_loop(option_store(d, Head(configs).key, Head(configs).value), Tail(configs))

\* history of the values given, folded over the same calls
RECURSIVE given_loop(_, _)
given_loop(g, configs) ==
  IF configs = <<>> THEN g
  ELSE given_loop(setitem(g, lower(Head(configs).key), Head(configs).value), Tail(configs))

option(key, value) ==
  /\ heap' = [heap EXCEPT ![cur_options] = option_store(@, key, value)]
  /\ ret' = Self
  /\ remote' = <<>>
  /\ call' = Call("option", key, value, <<>>, None)
  /\ last_given' = setitem(last_given, lower(key), value)
  /\ UNCHANGED <<user_schema, cur_options, dataframes, snapshots, last_schema_arg>>

options(configs) ==
  /\ heap' = [heap EXCEPT ![cur_options] = options_loop(@, configs)]
  /\ ret' = Self
  /\ remote' = <<>>
  /\ call' = Call("options", <<>>, NoValue, configs, None)
  /\ last_given' = given_loop(last_given, configs)
  /\ UNCHANGED <<user_schema, cur_options, dataframes, snapshots, last_schema_arg>>

schema(sch) ==
  /\ user_schema' = sch
  /\ ret' = Self
  /\ remote' = <<>>
  /\ call' = Call("schema", <<>>, NoValue, <<>>, sch)
  /\ last_schema_arg' = sch
  /\ UNCHANGED <<cur_options, heap, dataframes, snapshots, last_given>>

table(name) ==
  /\ ret' = DataFrame(0)
  /\ remote' = <<"table">>
  /\ call' = Call("table", <<>>, NoValue, <<>>, None)
  /\ UNCHANGED <<user_schema, cur_options, heap, dataframes, snapshots, last_given,
                 last_schema_arg>>

\* Session.__plan_builder.read_file wrapped in DataFrame(session, plan): the
\* handle keeps the arguments it was given; `options` is the dict object passed
read_file(path, format, opts, fully_qualified_schema, attrs) ==
  [path |-> path, format |-> format, options |-> opts,
   namespace |-> fully_qualified_schema, schema |-> attrs]

\* faulty variant: csv() hands over the catch-all column instead of the user's fields
csv_schema_arg_variant == <<Attribute("\"$1\"", "VariantType")>>

\* the arguments csv() passes for the options and the schema
csv_options_arg == cur_options
csv_schema_arg == to_attributes(user_schema)

\* the arguments __read_semi_structured_file passes
semi_options_arg == cur_options
semi_schema_arg == <<Attribute("\"$1\"", "VariantType")>>

\* the two session calls and the construction of the DataFrame
build(format, opts, attrs) ==
  /\ Len(dataframes) < MaxHandles
  /\ remote' = <<"getFullyQualifiedCurrentSchema", "read_file">>
  /\ dataframes' = Append(dataframes, read_file(Path, format, opts, Namespace, attrs))
  /\ snapshots' = Append(snapshots, [options |-> heap[opts], schema |-> attrs])
  /\ ret' = DataFrame(Len(dataframes) + 1)

fail(exc) ==
  /\ ret' = Raise(exc)
  /\ remote' = <<>>
  /\ UNCHANGED <<dataframes, snapshots>>

\* faulty variant: the schema is tested only after the namespace has been resolved
csv_late_check(path) ==
  /\ call' = Call("csv", <<>>, NoValue, <<>>, None)
  /\ IF ~truthy(user_schema)
       THEN /\ ret' = Raise("SnowparkClientException")
            /\ remote' = <<"getFullyQualifiedCurrentSchema">>
            /\ UNCHANGED <<dataframes, snapshots>>
       ELSE build("csv", csv_options_arg, csv_schema_arg)
  /\ UNCHANGED <<user_schema, cur_options, heap, last_given, last_schema_arg>>

\* faulty variant: a successful csv() consumes the schema of the builder
csv_consuming(path) ==
  /\ call' = Call("csv", <<>>, NoValue, <<>>, None)
  /\ IF ~truthy(user_schema)
       THEN fail("SnowparkClientException") /\ UNCHANGED user_schema
       ELSE build("csv", csv_options_arg, csv_schema_arg) /\ user_schema' = None
  /\ UNCHANGED <<cur_options, heap, last_given, last_schema_arg>>

csv(path) ==
  /\ call' = Call("csv", <<>>, NoValue, <<>>, None)
  /\ IF ~truthy(user_schema)
       THEN fail("SnowparkClientException")
       ELSE build("csv", csv_options_arg, csv_schema_arg)
  /\ UNCHANGED <<user_schema, cur_options, heap, last_given, last_schema_arg>>

\* faulty variant: the user schema is not tested
read_semi_structured_file_unchecked(path, format) ==
  /\ call' = Call(format, <<>>, NoValue, <<>>, None)
  /\ build(format, semi_options_arg, semi_schema_arg)
  /\ UNCHANGED <<user_schema, cur_options, heap, last_given, last_schema_arg>>

\* faulty variant: a rejected call starts the builder's options afresh
read_semi_structured_file_clearing(path, format) ==
  /\ call' = Call(format, <<>>, NoValue, <<>>, None)
  /\ IF truthy(user_schema)
       THEN fail("ValueError") /\ heap' = [heap EXCEPT ![cur_options] = EmptyDict]
       ELSE build(format, semi_options_arg, semi_schema_arg) /\ UNCHANGED heap
  /\ UNCHANGED <<user_schema, cur_options, last_given, last_schema_arg>>

read_semi_structured_file(path, format) ==
  /\ call' = Call(format, <<>>, NoValue, <<>>, None)
  /\ IF truthy(user_schema)
       THEN fail("ValueError")
       ELSE build(format, semi_options_arg, semi_schema_arg)
  /\ UNCHANGED <<user_schema, cur_options, heap, last_given, last_schema_arg>>

json(path) == read_semi_structured_file(path, "JSON")
avro(path) == read_semi_structured_file(path, "AVRO")
parquet(path) == read_semi_structured_file(path, "PARQUET")
orc(path) == read_semi_structured_file(path, "ORC")
xml(path) == read_semi_structured_file(path, "XML")

\* ----------------------------------------------------------- specifications
DoOption == \E k \in KeysR, v \in ValuesR : option(k, v)
DoOptions == \E c \in ConfigsR : options(c)
DoSchema == \E s \in Schemas : schema(s)
DoTable == table(TableName)
DoCsv == csv(Path)
DoJson == json(Path)
DoAvro == avro(Path)
DoParquet == parquet(Path)
DoOrc == orc(Path)
DoXml == xml(Path)

Next ==
  \/ DoOption \/ DoOptions \/ DoSchema \/ DoTable
  \/ DoCsv \/ DoJson \/ DoAvro \/ DoParquet \/ DoOrc \/ DoXml

Spec == Init /\ [][Next]_vars

\* the option-handling calls alone, over the full key and value sets
SetOption == \E k \in Keys, v \in Values : option(k, v)
SetOptions == \E c \in ConfigsOpt : options(c)
SetSchema == \E s \in Schemas : schema(s)

NextOpt == SetOption \/ SetOptions \/ SetSchema

SpecOpt == Init /\ [][NextOpt]_vars

\* ------------------------------------------------------------------ notions
\* the option mapping of the builder
opts == heap[cur_options]

IsUpperCase(s) == \A i \in 1..Len(s) : ~IsIn(LowerAlpha, s[i])

\* the entry stored for a key, found without normalising the key
StoredFor(key) == { k \in DOMAIN opts : lower(k) = lower(key) }

\* the decimal numeral read back as an integer
RECURSIVE ParseNat(_)
ParseNat(s) ==
  IF s = <<>> THEN 0
  ELSE 10 * ParseNat(SubSeq(s, 1, Len(s) - 1)) + (IndexIn(Digits, s[Len(s)]) - 1)

IsNumeral(s) == s # <<>> /\ \A i \in 1..Len(s) : IsIn(Digits, s[i])

IsDecimalOf(s, n) ==
  IF n < 0
    THEN Len(s) > 1 /\ s[1] = "-" /\ IsNumeral(Tail(s)) /\ ParseNat(Tail(s)) = -n
    ELSE IsNumeral(s) /\ ParseNat(s) = n

IsBoolLiteral(s) == lower(s) \in { <<"t","r","u","e">>, <<"f","a","l","s","e">> }

\* ------------------------------------------------------------------ claims
\* C4 as stated: option(key, v) with a boolean v stores, under the upper-cased
\* key, the lower-case literal "true" for True and "false" for False.
C4_BoolStoredLowerCase ==
  (call.op = "option" /\ call.value.t = "bool") =>
     \E k \in StoredFor(call.key) :
        /\ IsUpperCase(k)
        /\ opts[k] = IF call.value.b THEN <<"t","r","u","e">> ELSE <<"f","a","l","s","e">>

\* C4 amended: option(key, v) with a boolean v stores, under the upper-cased
\* key, str(v): the capitalised literal "True" for True and "False" for False.
C4_BoolStoredCapitalised ==
  (call.op = "option" /\ call.value.t = "bool") =>
     \E k \in StoredFor(call.key) :
        /\ IsUpperCase(k)
        /\ opts[k] = IF call.value.b THEN <<"T","r","u","e">> ELSE <<"F","a","l","s","e">>

C4_Witness ==
  /\ call.op = "option"
  /\ call.key = <<"a","b">>
  /\ call.value = PyBool(FALSE)
  /\ opts[<<"A","B">>] = <<"F","a","l","s","e">>

\* C5: after any sequence of option() and options() calls the mapping holds
\* exactly one entry per key compared case-insensitively, every stored key is
\* upper-case, and the entry's value is the serialization of the value given
\* in the last call for that key.
C5_OneUpperCaseEntryPerKey ==
  /\ \A c \in DOMAIN last_given : Cardinality({ k \in DOMAIN opts : lower(k) = c }) = 1
  /\ \A k \in DOMAIN opts :
        /\ IsUpperCase(k)
        /\ lower(k) \in DOMAIN last_given
        /\ opts[k] = parse_value(last_given[lower(k)])

C5_Witness ==
  /\ call.op = "options"
  /\ Len(call.configs) = 2
  /\ call.configs[1] = Pair(<<"a","b">>, PyInt(10))
  /\ call.configs[2] = Pair(<<"A","b">>, PyStr(<<".","*">>))
  /\ DOMAIN opts = { <<"A","B">> }
  /\ opts[<<"A","B">>] = <<"'", ".", "*", "'">>

\* C6: for a non-boolean v, option(key, v) stores the plain decimal numeral
\* without quotes when v is an integer, v itself with its casing when v is a
\* string equal case-insensitively to "true" or "false", and otherwise the
\* single-quoted literal produced by the shared quoting routine.
C6_NonBoolSerialization ==
  (call.op = "option" /\ call.value.t # "bool") =>
     \E k \in StoredFor(call.key) :
        CASE call.value.t = "int" -> IsDecimalOf(opts[k], call.value.i)
          [] call.value.t = "str" /\ IsBoolLiteral(call.value.s) -> opts[k] = call.value.s
          [] OTHER -> opts[k] = single_quote(call.value.s)

C6_Witness ==
  /\ call.op = "option"
  /\ call.value = PyStr(<<"T","r","U","E">>)
  /\ \E k \in StoredFor(call.key) : opts[k] = <<"T","r","U","E">>

\* C7: options(m) leaves the option mapping and the schema as calling
\* option(k, v) once per pair of m in iteration order does, so that among
\* pairs whose keys differ only in case the later one wins, and it returns
\* the same builder.
OneByOne(d, m) ==
  LET chain[i \in 0..Len(m)] ==
        IF i = 0 THEN d ELSE option_store(chain[i - 1], m[i].key, m[i].value)
  IN  chain[Len(m)]

C7_OptionsIsOptionPerPair ==
  [][ call'.op = "options" =>
        /\ heap'[cur_options'] = OneByOne(heap[cur_options], call'.configs)
        /\ \A i \in 1..Len(call'.configs) :
              (\A j \in (i + 1)..Len(call'.configs) :
                  lower(call'.configs[j].key) # lower(call'.configs[i].key))
              => \E k \in DOMAIN heap'[cur_options'] :
                    /\ lower(k) = lower(call'.configs[i].key)
                    /\ heap'[cur_options'][k] = parse_value(call'.configs[i].value)
        /\ user_schema' = user_schema
        /\ cur_options' = cur_options
        /\ ret' = Self ]_vars

C7_Witness ==
  /\ call.op = "options"
  /\ Len(call.configs) = 2
  /\ call.configs[1].key = <<"A","b">>
  /\ call.configs[2].key = <<"a","b">>
  /\ call.configs[1].value # call.configs[2].value
  /\ truthy(user_schema)
  /\ Cardinality(DOMAIN opts) = 2
  /\ opts[<<"A","B">>] = parse_value(call.configs[2].value)

\* the format-selection calls that read semi-structured files, by format tag
SemiOps == { "JSON", "AVRO", "PARQUET", "ORC", "XML" }
FormatOps == SemiOps \cup {"csv"}

\* the exceptions of the two local schema-presence checks
ConfigurationError == {"SnowparkClientException", "ValueError"}

NoSessionCall ==
  \A i \in 1..Len(remote) : remote[i] \notin {"getFullyQualifiedCurrentSchema", "read_file"}

\* C1 as stated: the option mapping and the schema carried by every DataFrame
\* already produced are what they were when it was constructed, whatever
\* option(), options() and schema() calls followed on the builder.
C1_HandlesKeepTheirOptions ==
  \A i \in 1..Len(dataframes) :
     /\ heap[dataframes[i].options] = snapshots[i].options
     /\ dataframes[i].schema = snapshots[i].schema

\* C2: json, avro, parquet, orc and xml, called with the schema set, fail with
\* the configuration error and make neither session call.
C2_SemiStructuredRejectsSchema ==
  (call.op \in SemiOps /\ truthy(user_schema)) =>
     /\ ret.kind = "raise"
     /\ ret.exc \in ConfigurationError
     /\ NoSessionCall

C2_Witness ==
  /\ call.op = "PARQUET"
  /\ truthy(user_schema)
  /\ ret.kind = "raise"
  /\ remote = <<>>

\* C3: csv(path) on a builder whose schema() was never called fails with the
\* configuration error, whatever the options, and makes neither session call.
C3_CsvRequiresSchema ==
  (call.op = "csv" /\ last_schema_arg = None) =>
     /\ ret.kind = "raise"
     /\ ret.exc \in ConfigurationError
     /\ NoSessionCall

C3_Witness ==
  /\ call.op = "csv"
  /\ last_schema_arg = None
  /\ DOMAIN opts # {}
  /\ ret.kind = "raise"
  /\ remote = <<>>

\* C8: a successful format-selection call yields a DataFrame whose schema is,
\* for csv, the field list of the schema most recently passed to schema(), in
\* order, and for the other formats the single variant column $1.
C8_HandleSchema ==
  (call.op \in FormatOps /\ ret.kind = "DataFrame") =>
     IF call.op = "csv"
       THEN dataframes[ret.df].schema = last_schema_arg.fields
       ELSE dataframes[ret.df].schema = <<[name |-> "\"$1\"", type |-> "VariantType"]>>

C8_Witness ==
  /\ call.op = "csv"
  /\ ret.kind = "DataFrame"
  /\ DOMAIN opts # {}
  /\ Len(dataframes[ret.df].schema) = 2
  /\ Len(dataframes) = 2
  /\ dataframes[1].schema # dataframes[2].schema

\* C9: the builder starts with the schema unset; once schema() has been called
\* the schema stays set through every later call, csv() never fails the
\* schema-presence check and json, avro, parquet, orc and xml always fail it.
C9_SchemaStaysSet ==
  /\ ~truthy(user_schema)
  /\ [](last_schema_arg # None =>
          /\ truthy(user_schema)
          /\ call.op = "csv" => ret.kind = "DataFrame"
          /\ call.op \in SemiOps => ret.kind = "raise")
  /\ [][truthy(user_schema) => truthy(user_schema')]_vars

C9_Witness ==
  /\ last_schema_arg # None
  /\ call.op = "csv"
  /\ ret.kind = "DataFrame"
  /\ Len(dataframes) = 2
  /\ dataframes[1].format = "csv"

\* C10: a format-selection call, returning or failing, and a table() call leave
\* the schema and the option mapping of the builder as they were; after a
\* failed call the format-selection call that is legal for the schema state
\* succeeds, with the options accumulated so far.
Legal(op) == IF truthy(user_schema) THEN op = "csv" ELSE op \in SemiOps

C10_TerminalCallsReadOnly ==
  [][ call'.op \in FormatOps \cup {"table"} =>
        /\ user_schema' = user_schema
        /\ cur_options' = cur_options
        /\ heap' = heap
        /\ (ret.kind = "raise" /\ Legal(call'.op)) =>
              /\ ret'.kind = "DataFrame"
              /\ heap'[dataframes'[ret'.df].options] = heap[cur_options] ]_vars

C10_Witness ==
  /\ call.op = "JSON"
  /\ ret.kind = "raise"
  /\ truthy(user_schema)
  /\ DOMAIN opts # {}
  /\ Len(dataframes) = 1

====
